---- MODULE Spec2Model ----
(***************************************************************************)
(* Ball physics of PlaygroundScene (createBalls, kickBall, updateBalls,    *)
(* update) and the frame loop, the kick and the camera transitions of      *)
(* PlaygroundApp (animate, kickBall, moveCamera).                          *)
(*                                                                         *)
(* JavaScript numbers are kept in fixed point: a length or a speed v is    *)
(* the integer v * Scale, a time t (seconds) is the integer t * TimeDen,   *)
(* a kick direction component c is the integer c * DirDen.  Products are   *)
(* rounded to the nearest unit, as the floating point product is rounded   *)
(* to the nearest double.                                                  *)
(***************************************************************************)
EXTENDS Integers, Sequences, FiniteSets, TLC

VARIABLES balls, hist, ticksLeft, kicksLeft, now, clock, prevNow, frames, app, ui

vars == <<balls, hist, ticksLeft, kicksLeft, now, clock, prevNow, frames, app, ui>>

\* ------------------------------------------------------------------------
\* Number representation
\* ------------------------------------------------------------------------
Scale == 6000
TimeDen == 3000
DirDen == 1000

\* Bounds of the exploration
MaxTicks == 5
MaxKicks == 2
MaxFrames == 3
StepTicks == 2
StepKicks == 1
AppTicks == 3
AppKicks == 2
MaxMoves == 2
LiveKicks == 1
MaxSlideClicks == 3
MaxUiEvents == 5
MaxUiFrames == 4

BallIds == {1, 2}

Abs(n) == IF n < 0 THEN -n ELSE n

Sign(n) == IF n > 0 THEN 1 ELSE IF n < 0 THEN -1 ELSE 0

\* a / b rounded to the nearest integer (b > 0), halves away from zero
RoundDiv(a, b) == Sign(a) * ((Abs(a) + (b \div 2)) \div b)

\* v * dt for a fixed-point v and a time dt, computed in two parts so that
\* the intermediate product stays within 32 bits
MulTime(v, dt) ==
    Sign(v) * ( (Abs(v) \div TimeDen) * dt
                + ((Abs(v) % TimeDen) * dt + (TimeDen \div 2)) \div TimeDen )

\* ------------------------------------------------------------------------
\* createBalls
\* ------------------------------------------------------------------------
radius == <<(4 * Scale) \div 10, (35 * Scale) \div 100>>

\* friction factor in hundredths
friction == <<92, 88>>

gravity == <<(-98 * Scale) \div 10, (-98 * Scale) \div 10>>

createBalls ==
    <<[x |-> 5 * Scale,  y |-> radius[1], z |-> 8 * Scale,
       vx |-> 0, vy |-> 0, vz |-> 0, rx |-> 0, rz |-> 0],
      [x |-> -5 * Scale, y |-> radius[2], z |-> -8 * Scale,
       vx |-> 0, vy |-> 0, vz |-> 0, rx |-> 0, rz |-> 0]>>

\* ------------------------------------------------------------------------
\* kickBall
\* ------------------------------------------------------------------------
kickStrength == 8

kickUp == 2 * Scale

kickBall_additive(ball, d) ==
    [ball EXCEPT !.vx = @ + RoundDiv(d.x * kickStrength * Scale, DirDen),
                 !.vy = @ + kickUp,
                 !.vz = @ + RoundDiv(d.z * kickStrength * Scale, DirDen)]

kickBall(ball, d) ==
    [ball EXCEPT !.vx = RoundDiv(d.x * kickStrength * Scale, DirDen),
                 !.vy = kickUp,
                 !.vz = RoundDiv(d.z * kickStrength * Scale, DirDen)]

\* meshes a click can hit: the two balls and one mesh that is not a ball
Meshes == BallIds \cup {3}

\* this.balls.find(b => b.mesh === ball): the index found, 0 for undefined
find(bs, m) == IF m \in DOMAIN bs THEN m ELSE 0

\* kickBall on the list of balls, with the lookup of the mesh
kickBallOn_first(bs, m, d) ==
    LET i == IF find(bs, m) = 0 THEN 1 ELSE find(bs, m)
    IN  [bs EXCEPT ![i] = kickBall(bs[i], d)]

kickBallOn(bs, m, d) ==
    IF find(bs, m) = 0
    THEN bs
    ELSE [bs EXCEPT ![m] = kickBall(bs[m], d)]

\* ------------------------------------------------------------------------
\* PlaygroundApp.kickBall: the direction from the camera to the ball
\* ------------------------------------------------------------------------
\* floor of the square root, by Newton's iteration from above
RECURSIVE SqrtIter(_, _)
SqrtIter(n, g) ==
    LET h == (g + n \div g) \div 2
    IN  IF h >= g THEN g ELSE SqrtIter(n, h)

Sqrt(n) == IF n = 0 THEN 0 ELSE SqrtIter(n, n)

\* Vector3.normalize() of (dx, 0, dz): divideScalar(length() || 1), in
\* DirDen units; the components are first brought below 20000 so that the
\* squares stay within 32 bits
Normalize_unitX(dx, dz) ==
    LET k   == (IF Abs(dx) > Abs(dz) THEN Abs(dx) ELSE Abs(dz)) \div 20000 + 1
        sx  == Sign(dx) * (Abs(dx) \div k)
        sz  == Sign(dz) * (Abs(dz) \div k)
        len == Sqrt(sx * sx + sz * sz)
    IN  IF len = 0
        THEN [x |-> DirDen, z |-> 0]
        ELSE [x |-> RoundDiv(sx * DirDen, len), z |-> RoundDiv(sz * DirDen, len)]

Normalize(dx, dz) ==
    LET k   == (IF Abs(dx) > Abs(dz) THEN Abs(dx) ELSE Abs(dz)) \div 20000 + 1
        sx  == Sign(dx) * (Abs(dx) \div k)
        sz  == Sign(dz) * (Abs(dz) \div k)
        len == Sqrt(sx * sx + sz * sz)
    IN  IF len = 0
        THEN [x |-> 0, z |-> 0]
        ELSE [x |-> RoundDiv(sx * DirDen, len), z |-> RoundDiv(sz * DirDen, len)]

\* subVectors(ballPosition, cameraPosition) with both y set to 0, normalised
kickDirection(ball, camera) == Normalize(ball.x - camera.x, ball.z - camera.z)

\* ------------------------------------------------------------------------
\* updateBalls, the body of the forEach for one ball
\* ------------------------------------------------------------------------
\* velocity.lengthSq() < 0.001; a component of 190 units or more already
\* makes the sum too large, which keeps the squares within 32 bits
IsStationary(ball) ==
    /\ 1000 * Abs(ball.vx) < 32 * Scale
    /\ 1000 * Abs(ball.vy) < 32 * Scale
    /\ 1000 * Abs(ball.vz) < 32 * Scale
    /\ 1000 * (ball.vx * ball.vx + ball.vy * ball.vy + ball.vz * ball.vz)
          < Scale * Scale

\* the "ball is stationary" branch
RestBranch_drift(ball, b, dt) ==
    [ball EXCEPT !.vx = 0, !.vy = 0, !.vz = 0,
                 !.x = @ + MulTime(ball.vx, dt),
                 !.y = IF ball.y <= radius[b] THEN radius[b] ELSE ball.y]

RestBranch(ball, b, dt) ==
    [ball EXCEPT !.vx = 0, !.vy = 0, !.vz = 0,
                 !.y = IF ball.y <= radius[b] THEN radius[b] ELSE ball.y]

\* velocity.y += gravity * deltaTime
ApplyGravity(ball, b, dt) ==
    [ball EXCEPT !.vy = @ + MulTime(gravity[b], dt)]

\* position += velocity * deltaTime, componentwise
Integrate_noX(ball, dt) ==
    [ball EXCEPT !.y = @ + MulTime(ball.vy, dt),
                 !.z = @ + MulTime(ball.vz, dt)]

Integrate(ball, dt) ==
    [ball EXCEPT !.x = @ + MulTime(ball.vx, dt),
                 !.y = @ + MulTime(ball.vy, dt),
                 !.z = @ + MulTime(ball.vz, dt)]

\* velocity *= -0.5
Bounce(v) == RoundDiv(-v, 2)

smallBounce == (3 * Scale) \div 10

\* ground collision: clamp, bounce with damping, stop small bounces
GroundCollision_noClamp(ball, b) ==
    IF ball.y <= radius[b]
    THEN LET vyb == Bounce(ball.vy)
         IN  [ball EXCEPT !.vy = IF Abs(vyb) < smallBounce THEN 0 ELSE vyb]
    ELSE ball

GroundCollision_elastic(ball, b) ==
    IF ball.y <= radius[b]
    THEN LET vyb == -ball.vy
         IN  [ball EXCEPT !.y = radius[b],
                          !.vy = IF Abs(vyb) < smallBounce THEN 0 ELSE vyb]
    ELSE ball

GroundCollision_noStop(ball, b) ==
    IF ball.y <= radius[b]
    THEN [ball EXCEPT !.y = radius[b], !.vy = Bounce(ball.vy)]
    ELSE ball

GroundCollision(ball, b) ==
    IF ball.y <= radius[b]
    THEN LET vyb == Bounce(ball.vy)
         IN  [ball EXCEPT !.y = radius[b],
                          !.vy = IF Abs(vyb) < smallBounce THEN 0 ELSE vyb]
    ELSE ball

groundEps == Scale \div 100

\* the ball touches the ground: position.y <= radius + 0.01
OnGround(ball, b) == ball.y <= radius[b] + groundEps

\* friction on the ground
Friction_always(ball, b) ==
    [ball EXCEPT !.vx = RoundDiv(@ * friction[b], 100),
                 !.vz = RoundDiv(@ * friction[b], 100)]

Friction(ball, b) ==
    IF OnGround(ball, b)
    THEN [ball EXCEPT !.vx = RoundDiv(@ * friction[b], 100),
                      !.vz = RoundDiv(@ * friction[b], 100)]
    ELSE ball

maxDistance == 45 * Scale

\* boundary constraints, x then z
Boundary_noClampX(ball) ==
    LET bx == IF Abs(ball.x) > maxDistance
              THEN [ball EXCEPT !.vx = Bounce(@)]
              ELSE ball
    IN  IF Abs(bx.z) > maxDistance
        THEN [bx EXCEPT !.z = Sign(@) * maxDistance, !.vz = Bounce(@)]
        ELSE bx

Boundary_keepSpeed(ball) ==
    LET bx == IF Abs(ball.x) > maxDistance
              THEN [ball EXCEPT !.x = Sign(@) * maxDistance, !.vx = -@]
              ELSE ball
    IN  IF Abs(bx.z) > maxDistance
        THEN [bx EXCEPT !.z = Sign(@) * maxDistance, !.vz = -@]
        ELSE bx

Boundary(ball) ==
    LET bx == IF Abs(ball.x) > maxDistance
              THEN [ball EXCEPT !.x = Sign(@) * maxDistance, !.vx = Bounce(@)]
              ELSE ball
    IN  IF Abs(bx.z) > maxDistance
        THEN [bx EXCEPT !.z = Sign(@) * maxDistance, !.vz = Bounce(@)]
        ELSE bx

\* Vector2(vx, vz).length() > 0.1
IsRolling(ball) ==
    \/ 10 * Abs(ball.vx) > Scale
    \/ 10 * Abs(ball.vz) > Scale
    \/ 100 * (ball.vx * ball.vx + ball.vz * ball.vz) > Scale * Scale

\* rotateOnWorldAxis(normalize(-vz, 0, vx), speed * deltaTime * 2): the
\* orientation is kept as the accumulated rotation vector axis * angle,
\* which is (-vz, 0, vx) * deltaTime * 2
Rotate(ball, dt) ==
    IF IsRolling(ball)
    THEN [ball EXCEPT !.rx = @ + MulTime(-2 * ball.vz, dt),
                      !.rz = @ + MulTime(2 * ball.vx, dt)]
    ELSE ball

updateBall_integrateFirst(ball, b, dt) ==
    IF IsStationary(ball)
    THEN RestBranch(ball, b, dt)
    ELSE Rotate(Boundary(Friction(GroundCollision(
             ApplyGravity(Integrate(ball, dt), b, dt), b), b)), dt)

\* each step works on the value the step before it has produced
updateBall(ball, b, dt) ==
    IF IsStationary(ball)
    THEN RestBranch(ball, b, dt)
    ELSE CHOOSE r \in
             {Rotate(s5, dt) : s5 \in
             {Boundary(s4) : s4 \in
             {Friction(s3, b) : s3 \in
             {GroundCollision(s2, b) : s2 \in
             {Integrate(s1, dt) : s1 \in
             {ApplyGravity(ball, b, dt)}}}}}} : TRUE

updateBalls_shared(bs, dt) == [b \in BallIds |-> updateBall(bs[1], b, dt)]

updateBalls(bs, dt) == [b \in BallIds |-> updateBall(bs[b], b, dt)]

\* ------------------------------------------------------------------------
\* THREE.Clock as used by update(): the clock starts at its first read;
\* getDelta() returns the time since the previous read of either kind and
\* makes this read the previous one; getElapsedTime() calls getDelta() and
\* returns the accumulated time
\* ------------------------------------------------------------------------
newClock == [running |-> FALSE, oldTime |-> 0, elapsedTime |-> 0]

\* Clock.getDelta() read at time t: the new clock and the returned value
getDelta(c, t) ==
    IF ~c.running
    THEN [clock |-> [running |-> TRUE, oldTime |-> t, elapsedTime |-> 0],
          value |-> 0]
    ELSE [clock |-> [c EXCEPT !.oldTime = t,
                              !.elapsedTime = c.elapsedTime + (t - c.oldTime)],
          value |-> t - c.oldTime]

\* Clock.getElapsedTime() read at time t: it calls getDelta()
getElapsedTime(c, t) ==
    LET r == getDelta(c, t)
    IN  [clock |-> r.clock, value |-> r.clock.elapsedTime]

\* ------------------------------------------------------------------------
\* PlaygroundApp: frame loop bookkeeping, camera, viewpoint transitions
\* ------------------------------------------------------------------------
Vec(x, y, z) == [x |-> x * Scale, y |-> y * Scale, z |-> z * Scale]

cameraViewpoints ==
    [overview  |-> [position |-> Vec(25, 15, 25),  target |-> Vec(0, 0, 0)],
     garden    |-> [position |-> Vec(-15, 8, -15), target |-> Vec(-8, 2, -8)],
     playArea  |-> [position |-> Vec(10, 8, 0),    target |-> Vec(6, 2, 0)],
     relaxZone |-> [position |-> Vec(0, 6, -15),   target |-> Vec(0, 1, -10)]]

\* duration of a transition: 1500 ms
duration == (3 * TimeDen) \div 2

\* what render() draws: the mesh positions
Positions(bs) == [b \in DOMAIN bs |-> [x |-> bs[b].x, y |-> bs[b].y, z |-> bs[b].z]]

\* the application after its fields are set and before the first animate():
\* pending is the number of requested main-loop callbacks, rendered the
\* positions drawn by the last render, transitions the pending callbacks of
\* moveCamera in the order they were requested, call the name given to the
\* last moveCamera call
newApp ==
    [pending |-> 0,
     rendered |-> Positions(createBalls),
     camera |-> Vec(25, 15, 25),
     target |-> Vec(0, 0, 0),
     isTransitioning |-> FALSE,
     transitions |-> <<>>,
     call |-> "none",
     movesLeft |-> MaxMoves]

\* easeInOutCubic(t), t and the result in thousandths
easeInOutCubic(t) ==
    IF t < 500
    THEN (4 * t * t * t) \div 1000000
    ELSE 1000 - ((2000 - 2 * t) * (2000 - 2 * t) * (2000 - 2 * t)) \div 2000000

\* Vector3.lerpVectors(v1, v2, alpha), alpha in thousandths
lerpVectors(v1, v2, alpha) ==
    [x |-> v1.x + RoundDiv((v2.x - v1.x) * alpha, 1000),
     y |-> v1.y + RoundDiv((v2.y - v1.y) * alpha, 1000),
     z |-> v1.z + RoundDiv((v2.z - v1.z) * alpha, 1000)]

\* Math.min(elapsed / duration, 1) in thousandths
Progress(tr, t) ==
    IF t - tr.startTime >= duration
    THEN 1000
    ELSE ((t - tr.startTime) * 1000) \div duration

\* one run of the closure "animate" of moveCamera for transition tr at time
\* t: move camera and target, then request the next frame or finish
\* (camera and target are the values lerpVectors writes; the correction
\* OrbitControls.update() applies to the camera afterwards is library code)
RunTransition(a, tr, t) ==
    LET eased == easeInOutCubic(Progress(tr, t))
        moved == [a EXCEPT !.camera = lerpVectors(tr.startPos, tr.endPos, eased),
                           !.target = lerpVectors(tr.startTarget, tr.endTarget, eased)]
    IN  IF Progress(tr, t) < 1000
        THEN [moved EXCEPT !.transitions = Append(@, tr)]
        ELSE [moved EXCEPT !.isTransitioning = FALSE]

\* the callbacks requested for this frame run in the order of their request
RECURSIVE RunTransitions(_, _, _)
RunTransitions(a, trs, t) ==
    IF trs = <<>>
    THEN a
    ELSE RunTransitions(RunTransition(a, Head(trs), t), Tail(trs), t)

\* moveCamera(viewpointName) called at time t
moveCamera_noGuard(a, name, t) ==
    IF name \notin DOMAIN cameraViewpoints
    THEN a
    ELSE LET tr == [startPos |-> a.camera,
                    endPos |-> cameraViewpoints[name].position,
                    startTarget |-> a.target,
                    endTarget |-> cameraViewpoints[name].target,
                    startTime |-> t]
         IN  RunTransition([a EXCEPT !.isTransitioning = TRUE], tr, t)

moveCamera(a, name, t) ==
    IF a.isTransitioning
    THEN a
    ELSE IF name \notin DOMAIN cameraViewpoints
    THEN a
    ELSE LET tr == [startPos |-> a.camera,
                    endPos |-> cameraViewpoints[name].position,
                    startTarget |-> a.target,
                    endTarget |-> cameraViewpoints[name].target,
                    startTime |-> t]
         IN  RunTransition([a EXCEPT !.isTransitioning = TRUE], tr, t)

\* animate(): request the next frame, update the scene, render
animate_renderFirst(a, first, before, after) ==
    [a EXCEPT !.pending = (IF first THEN @ ELSE @ - 1) + 1,
              !.rendered = Positions(before)]

animate(a, first, before, after) ==
    [a EXCEPT !.pending = (IF first THEN @ ELSE @ - 1) + 1,
              !.rendered = Positions(after)]

\* ------------------------------------------------------------------------
\* PlaygroundApp: confetti particles
\* ------------------------------------------------------------------------
\* number of pooled particles
PoolSize == 30

\* life of a claimed particle and its decrease per run, in hundredths
fullLife == 100

lifeStep == 2

\* decrease of velocity.y per run (0.2), in thousandths
confettiGravity == 200

\* velocity * 0.016, velocity and result in thousandths
ConfettiMove(v) == RoundDiv(v * 16, 1000)

\* createParticleSystem(): all particles invisible; y is position.y in
\* thousandths
createParticleSystem == [i \in 1..PoolSize |-> [visible |-> FALSE, y |-> 0]]

\* ------------------------------------------------------------------------
\* PlaygroundApp: lamps
\* ------------------------------------------------------------------------
\* colours 0x000000 and 0xffa500; intensities are kept in tenths
black == 0

orange == 16753920

\* a lamp as createLamps leaves it: createLamp stores lampMaterial and
\* pointLight in userData, and createLamps then replaces userData by a new
\* object literal without them, so userData.lampMaterial is undefined;
\* errors counts the TypeErrors raised by handlers of this lamp
createLamp ==
    [isOn |-> FALSE,
     lampMaterial |-> "undefined",
     emissive |-> black,
     emissiveIntensity |-> 0,
     lightIntensity |-> 0,
     errors |-> 0]

\* applyObjectHover, case 'lamp'
applyLampHover(l) ==
    IF l.lampMaterial # "undefined"
    THEN [l EXCEPT !.emissive = orange, !.emissiveIntensity = 4]
    ELSE l

\* resetObjectHover, case 'lamp'
resetLampHover(l) ==
    IF l.lampMaterial # "undefined" /\ ~l.isOn
    THEN [l EXCEPT !.emissive = black, !.emissiveIntensity = 0]
    ELSE l

\* toggleLamp(lamp): lampMaterial.emissive of an undefined lampMaterial
\* raises a TypeError before anything is written
toggleLamp(l) ==
    IF l.lampMaterial = "undefined"
    THEN [l EXCEPT !.errors = @ + 1]
    ELSE IF ~l.isOn
    THEN [l EXCEPT !.emissive = orange, !.emissiveIntensity = 8,
                   !.lightIntensity = 15, !.isOn = TRUE]
    ELSE [l EXCEPT !.emissive = black, !.emissiveIntensity = 0,
                   !.lightIntensity = 0, !.isOn = FALSE]

\* ------------------------------------------------------------------------
\* PlaygroundApp: ambient sound
\* ------------------------------------------------------------------------
\* audioContext is TRUE when a context exists; birdChirpInterval is the
\* handle of the last setInterval (0 for none), timers the handles of the
\* interval timers that are not cleared, chirps the chirps played and
\* chirpsWhileOff those of them played while audioPlaying was false
newSound ==
    [audioPlaying |-> FALSE,
     audioContext |-> FALSE,
     oscillators |-> <<>>,
     birdChirpInterval |-> 0,
     timers |-> {},
     intervals |-> 0,
     chirps |-> 0,
     chirpsWhileOff |-> 0]

startAmbientSound(a) ==
    [a EXCEPT !.audioContext = TRUE,
              !.oscillators = Append(@, "wind"),
              !.birdChirpInterval = a.intervals + 1,
              !.timers = @ \cup {a.intervals + 1},
              !.intervals = @ + 1]

stopAmbientSound_noClear(a) ==
    [a EXCEPT !.oscillators = <<>>,
              !.audioContext = FALSE]

stopAmbientSound(a) ==
    [a EXCEPT !.oscillators = <<>>,
              !.timers = IF a.birdChirpInterval # 0 THEN @ \ {a.birdChirpInterval} ELSE @,
              !.audioContext = FALSE]

toggleSound(a) ==
    IF ~a.audioPlaying
    THEN [startAmbientSound(a) EXCEPT !.audioPlaying = TRUE]
    ELSE [stopAmbientSound(a) EXCEPT !.audioPlaying = FALSE]

playBirdChirp(a) ==
    IF ~a.audioContext
    THEN a
    ELSE [a EXCEPT !.chirps = @ + 1,
                   !.chirpsWhileOff = IF a.audioPlaying THEN @ ELSE @ + 1]

\* ------------------------------------------------------------------------
\* PlaygroundApp: trees
\* ------------------------------------------------------------------------
\* Math.sin in fixed point: x in thousandths of a radian, the result in
\* thousandths (Taylor polynomial of degree 7 on [0, pi/2] after reduction)
SinQuarter(x) ==
    LET x2 == (x * x) \div 1000
        x3 == (x2 * x) \div 1000
        x5 == (x3 * x2) \div 1000
        x7 == (x5 * x2) \div 1000
    IN  x - (x3 \div 6) + (x5 \div 120) - (x7 \div 5040)

Sin(x) ==
    LET m == x % 6283
        h == IF m > 3142 THEN m - 3142 ELSE m
        q == IF h > 1571 THEN 3142 - h ELSE h
    IN  IF m > 3142 THEN 0 - SinQuarter(q) ELSE SinQuarter(q)

\* a tree as createTrees leaves it: rotation.y (millionths of a radian) is
\* 0, userData has neither hoverTime nor originalRotation; rustles are the
\* requested callbacks of rustleTree in the order of their request
createTree ==
    [rotation |-> 0,
     hoverTime |-> 0,
     hasOriginalRotation |-> FALSE,
     originalRotation |-> 0,
     rustles |-> <<>>]

\* applyObjectHover, case 'tree'
applyTreeHover(t) ==
    [t EXCEPT !.hoverTime = 0,
              !.hasOriginalRotation = TRUE,
              !.originalRotation = t.rotation]

\* resetObjectHover, case 'tree'
resetTreeHover(t) ==
    IF t.hasOriginalRotation
    THEN [t EXCEPT !.rotation = t.originalRotation]
    ELSE t

\* animate(): the gentle sway of a hovered tree (hoverTime in thousandths)
animateTreeHover(t) ==
    [t EXCEPT !.hoverTime = @ + 50,
              !.rotation = t.originalRotation + Sin(t.hoverTime + 50) * 50]

\* one run of the callback r of rustleTree at time t0
rustleStep(t, r, t0) ==
    LET elapsed == t0 - r.startTime
    IN  IF elapsed < TimeDen
        THEN [t EXCEPT !.rotation = r.originalRotation
                           + Sin((elapsed * 25133) \div TimeDen) * 100,
                       !.rustles = Append(@, r)]
        ELSE [t EXCEPT !.rotation = r.originalRotation]

\* rustleTree(tree) at time t0: the callback runs once at once
rustleTree(t, t0) ==
    rustleStep(t, [startTime |-> t0, originalRotation |-> t.rotation], t0)

\* the requested callbacks rs of rustleTree run in the order of request
RECURSIVE RunRustles(_, _, _)
RunRustles(t, rs, t0) ==
    IF rs = <<>>
    THEN t
    ELSE CHOOSE r \in {RunRustles(s, Tail(rs), t0) :
                          s \in {rustleStep(t, Head(rs), t0)}} : TRUE

\* ------------------------------------------------------------------------
\* PlaygroundApp: flowers
\* ------------------------------------------------------------------------
\* a flower as createFlowers leaves it: scale (thousandths) 1; anims are
\* the requested callbacks of animateScale in the order of their request
createFlower ==
    [scale |-> 1000,
     isHovered |-> FALSE,
     interrupted |-> FALSE,
     anims |-> <<>>]

\* the duration of the hover animations of a flower, 300 ms
hoverDuration == (3 * TimeDen) \div 10

\* one run of the callback an of animateScale at time t0
scaleStep(fl, an, t0) ==
    LET elapsed == t0 - an.startTime
        progress == IF elapsed >= an.duration
                    THEN 1000
                    ELSE (elapsed * 1000) \div an.duration
        eased == easeInOutCubic(progress)
        scale == an.startScale
                   + RoundDiv((an.targetScale - an.startScale) * eased, 1000)
    IN  IF progress < 1000
        THEN [fl EXCEPT !.scale = scale, !.anims = Append(@, an)]
        ELSE [fl EXCEPT !.scale = scale]

\* animateScale(object, targetScale, duration) at time t0; interrupted
\* records that it was called while an earlier animation had the scale
\* strictly between 1.0 and 1.2
animateScale(fl, targetScale, d, t0) ==
    scaleStep([fl EXCEPT !.interrupted = @ \/ (fl.anims # <<>> /\ fl.scale \notin {1000, 1200})],
              [startScale |-> fl.scale, startTime |-> t0,
               targetScale |-> targetScale, duration |-> d], t0)

\* applyObjectHover, case 'flower'
applyFlowerHover(fl, t0) ==
    animateScale([fl EXCEPT !.isHovered = TRUE], 1200, hoverDuration, t0)

\* resetObjectHover, case 'flower'
resetFlowerHover(fl, t0) ==
    animateScale([fl EXCEPT !.isHovered = FALSE], 1000, hoverDuration, t0)

\* the requested callbacks ans of animateScale run in the order of request
RECURSIVE RunScales(_, _, _)
RunScales_newestFirst(fl, ans, t0) ==
    LET rev == [i \in 1..Len(ans) |-> ans[Len(ans) + 1 - i]]
        RECURSIVE Run(_, _)
        Run(g, as) ==
            IF as = <<>>
            THEN g
            ELSE CHOOSE r \in {Run(s, Tail(as)) :
                                  s \in {scaleStep(g, Head(as), t0)}} : TRUE
    IN  Run(fl, rev)

RunScales(fl, ans, t0) ==
    IF ans = <<>>
    THEN fl
    ELSE CHOOSE r \in {RunScales(s, Tail(ans), t0) :
                          s \in {scaleStep(fl, Head(ans), t0)}} : TRUE

\* ------------------------------------------------------------------------
\* PlaygroundApp: focus mode
\* ------------------------------------------------------------------------
\* the keys onKeyDown and onKeyUp handle in focus mode
KeySet == {"w", "a", "s", "d", "q", "e"}

\* the focus-mode fields after the constructor: character says whether
\* playgroundScene.character is set, controlsEnabled is controls.enabled
\* (OrbitControls are created enabled), saved says whether
\* savedCameraPosition and savedCameraTarget are set, restores are the
\* requested callbacks of the camera restore in the order of their request,
\* charX and charZ the character's position (thousandths), cameraRotation
\* in degrees; held is the physical state of the keyboard and movedUnheld
\* records that updateFocusMode moved the character or rotated the camera
\* while no key was held (camera position and limb rotations, which none
\* of these fields depends on, are left out)
newFocus ==
    [character |-> FALSE,
     focusMode |-> FALSE,
     controlsEnabled |-> TRUE,
     saved |-> FALSE,
     restores |-> <<>>,
     keys |-> [k \in KeySet |-> FALSE],
     held |-> [k \in KeySet |-> FALSE],
     charX |-> 0,
     charZ |-> 0,
     cameraRotation |-> 0,
     movedUnheld |-> FALSE]

\* the duration of the camera restore, 1000 ms
restoreDuration == TimeDen

\* one run of the callback r of the camera restore at time t0
restoreStep(fo, r, t0) ==
    IF t0 - r.startTime < restoreDuration
    THEN [fo EXCEPT !.restores = Append(@, r)]
    ELSE [fo EXCEPT !.controlsEnabled = TRUE]

\* toggleFocusMode() at time t0
toggleFocusMode(fo, t0) ==
    IF ~fo.character
    THEN fo
    ELSE IF ~fo.focusMode
         THEN [fo EXCEPT !.focusMode = TRUE,
                         !.saved = TRUE,
                         !.controlsEnabled = FALSE,
                         !.cameraRotation = 0]
         ELSE IF fo.saved
              THEN restoreStep([fo EXCEPT !.focusMode = FALSE],
                               [startTime |-> t0], t0)
              ELSE [fo EXCEPT !.focusMode = FALSE, !.controlsEnabled = TRUE]

\* the requested callbacks rs of the camera restore run in the order of
\* request
RECURSIVE RunRestores(_, _, _)
RunRestores(fo, rs, t0) ==
    IF rs = <<>>
    THEN fo
    ELSE CHOOSE r \in {RunRestores(g, Tail(rs), t0) :
                          g \in {restoreStep(fo, Head(rs), t0)}} : TRUE

\* onKeyDown(event) for a key of KeySet (the camera shortcuts of the other
\* branch are moveCamera)
onKeyDown(fo, k) ==
    IF fo.focusMode
    THEN [fo EXCEPT !.keys[k] = TRUE]
    ELSE fo

\* onKeyUp(event)
onKeyUp(fo, k) ==
    IF fo.focusMode
    THEN [fo EXCEPT !.keys[k] = FALSE]
    ELSE fo

\* Math.cos in fixed point
Cos(x) == Sin(x + 1571)

Clamp(v, lo, hi) == IF v < lo THEN lo ELSE IF v > hi THEN hi ELSE v

\* updateFocusMode()
updateFocusMode(fo) ==
    IF ~fo.focusMode \/ ~fo.character
    THEN fo
    ELSE LET rot == fo.cameraRotation + (IF fo.keys["q"] THEN 2 ELSE 0)
                                      - (IF fo.keys["e"] THEN 2 ELSE 0)
             rotRad == RoundDiv(rot * 17453, 1000)
             sn == RoundDiv(Sin(rotRad) * 150, 1000)
             cs == RoundDiv(Cos(rotRad) * 150, 1000)
             moveX == (IF fo.keys["w"] THEN 0 - sn ELSE 0)
                      + (IF fo.keys["s"] THEN sn ELSE 0)
                      - (IF fo.keys["a"] THEN cs ELSE 0)
                      + (IF fo.keys["d"] THEN cs ELSE 0)
             moveZ == (IF fo.keys["w"] THEN 0 - cs ELSE 0)
                      + (IF fo.keys["s"] THEN cs ELSE 0)
                      + (IF fo.keys["a"] THEN sn ELSE 0)
                      - (IF fo.keys["d"] THEN sn ELSE 0)
             moved == moveX # 0 \/ moveZ # 0
             noneHeld == \A k \in KeySet : ~fo.held[k]
         IN  [fo EXCEPT !.cameraRotation = rot,
                        !.charX = IF moved THEN Clamp(@ + moveX, -30000, 30000) ELSE @,
                        !.charZ = IF moved THEN Clamp(@ + moveZ, -30000, 30000) ELSE @,
                        !.movedUnheld = @ \/ (noneHeld /\ (moved \/ rot # fo.cameraRotation))]

\* ------------------------------------------------------------------------
\* PlaygroundApp: hover
\* ------------------------------------------------------------------------
\* applyObjectHover(object)
applyObjectHover(u, object, t0) ==
    CASE object = "lamp" -> [u EXCEPT !.lamp = applyLampHover(@)]
      [] object = "tree" -> [u EXCEPT !.tree = applyTreeHover(@)]
      [] object = "flower" -> [u EXCEPT !.flower = applyFlowerHover(@, t0)]
      [] OTHER -> u

\* resetObjectHover(object)
resetObjectHover(u, object, t0) ==
    CASE object = "lamp" -> [u EXCEPT !.lamp = resetLampHover(@)]
      [] object = "tree" -> [u EXCEPT !.tree = resetTreeHover(@)]
      [] object = "flower" -> [u EXCEPT !.flower = resetFlowerHover(@, t0)]
      [] OTHER -> u

\* updateHover() at time t0 with the pointer over target ("none": over no
\* object)
updateHover(u, target, t0) ==
    LET cleared == IF u.hoveredObject # "none"
                   THEN [resetObjectHover(u, u.hoveredObject, t0) EXCEPT !.hoveredObject = "none"]
                   ELSE u
    IN  IF target # "none"
        THEN applyObjectHover([cleared EXCEPT !.hoveredObject = target], target, t0)
        ELSE cleared

\* the interactive state of the application after construction: particles
\* is the pool, confetti the requested animateParticles callbacks in the
\* order of their request, each with the particles it has claimed
\* (activeParticles), their life and their velocity.y
newUi ==
    [particles |-> createParticleSystem,
     confetti |-> <<>>,
     slideClicksLeft |-> MaxSlideClicks,
     hoveredObject |-> "none",
     lamp |-> createLamp,
     sound |-> newSound,
     tree |-> createTree,
     flower |-> createFlower,
     focus |-> newFocus,
     uiEventsLeft |-> MaxUiEvents,
     uiFramesLeft |-> MaxUiFrames]

\* one run of animateParticles for the animation an; all particles of one
\* animation are claimed together with life 1.0, so their lives stay equal
animateParticles_alwaysRequest(u, an) ==
    IF an.members # {} /\ an.life > 0
    THEN [u EXCEPT
            !.particles = [i \in 1..PoolSize |->
                IF i \in an.members
                THEN [visible |-> IF an.life - lifeStep <= 0 THEN FALSE ELSE @[i].visible,
                      y |-> @[i].y + ConfettiMove(an.vy)]
                ELSE @[i]],
            !.confetti = Append(@, [an EXCEPT !.vy = @ - confettiGravity,
                                              !.life = @ - lifeStep])]
    ELSE [u EXCEPT
            !.particles = [i \in 1..PoolSize |->
                IF i \in an.members THEN [@[i] EXCEPT !.visible = FALSE] ELSE @[i]],
            !.confetti = Append(@, an)]

animateParticles(u, an) ==
    IF an.members # {} /\ an.life > 0
    THEN [u EXCEPT
            !.particles = [i \in 1..PoolSize |->
                IF i \in an.members
                THEN [visible |-> IF an.life - lifeStep <= 0 THEN FALSE ELSE @[i].visible,
                      y |-> @[i].y + ConfettiMove(an.vy)]
                ELSE @[i]],
            !.confetti = Append(@, [an EXCEPT !.vy = @ - confettiGravity,
                                              !.life = @ - lifeStep])]
    ELSE [u EXCEPT
            !.particles = [i \in 1..PoolSize |->
                IF i \in an.members THEN [@[i] EXCEPT !.visible = FALSE] ELSE @[i]]]

\* createConfetti(position): claim every invisible particle, then run
\* animateParticles once; vy is the random velocity.y (the model gives the
\* particles of one call the same one), position.y is 0.5
createConfetti(u, vy) ==
    LET claimed == {i \in 1..PoolSize : ~u.particles[i].visible}
        shown == [u EXCEPT !.particles = [i \in 1..PoolSize |->
                     IF i \in claimed THEN [visible |-> TRUE, y |-> 500] ELSE @[i]]]
    IN  animateParticles(shown, [members |-> claimed, vy |-> vy, life |-> fullLife])

\* the animateParticles callbacks requested for this frame, in order
RECURSIVE RunConfetti(_, _)
RunConfetti(u, ans) ==
    IF ans = <<>>
    THEN u
    ELSE CHOOSE r \in {RunConfetti(v, Tail(ans)) :
                           v \in {animateParticles(u, Head(ans))}} : TRUE

\* ------------------------------------------------------------------------
\* Inputs
\* ------------------------------------------------------------------------
\* Math.random() * 5 + 3 for velocity.y of the confetti, in thousandths
ConfettiVySet == {3000, 5500}

\* what the pointer is over after a mouse move near a lamp
LampTargets == {"none", "lamp"}

\* names given to moveCamera: the four buttons and keys, and a name that is
\* not a viewpoint
Names == {"overview", "garden", "playArea", "relaxZone", "unknown"}

\* time between two display frames during a camera transition: 1/2 s, 1 s
CamFrameSet == {TimeDen \div 2, TimeDen}

\* camera positions at a click: the initial one, right above the first
\* position of each ball, and one on the line z = 8 through ball 1
CamSet == {Vec(25, 15, 25), Vec(5, 15, 8), Vec(-5, 15, -8), Vec(-20, 15, 8)}

\* deltaTime values of an endless run of frames: 1/20 s, 3/20 s
LiveDtSet == {TimeDen \div 20, (3 * TimeDen) \div 20}

\* deltaTime values: 0, 1/20 s, 8 s
DtSet == {0, TimeDen \div 20, 8 * TimeDen}

\* kick directions: the zero vector and the unit vector (0.8, 0, 0.6)
Dirs == {[x |-> 0, z |-> 0],
         [x |-> (8 * DirDen) \div 10, z |-> (6 * DirDen) \div 10]}

\* deltaTime values the integrator is applied to as a function:
\* 0, 1/60 s, 1/20 s, 8 s
StepDtSet == {0, TimeDen \div 60, TimeDen \div 20, 8 * TimeDen}

\* kick directions of the kick as a function
StepDirs == {[x |-> 0, z |-> 0], [x |-> DirDen, z |-> 0],
             [x |-> (8 * DirDen) \div 10, z |-> (6 * DirDen) \div 10]}

\* time between two animation frames: 1/60 s, 1/20 s
FrameSet == {TimeDen \div 60, TimeDen \div 20}

\* time between the two clock reads of one update(): none, or 1 ms
GapSet == {0, TimeDen \div 1000}

\* ball states the integrator is applied to as a function
StepStates(b) ==
    [x  : {0, 44 * Scale},
     y  : {radius[b], radius[b] + Scale},
     z  : {0},
     vx : {0, Scale \div 1000, kickStrength * Scale, 50 * Scale},
     vy : {0, Scale \div 2000, kickUp},
     vz : {0},
     rx : {0},
     rz : {0}]

NoDir == [x |-> 0, z |-> 0]

Entry(op, b, d, dt, before) ==
    [op |-> op, ball |-> b, dir |-> d, dt |-> dt, before |-> before]

\* the last operation, the balls before it, and the operation before that
Last == hist[1]
Pre == hist[1].before
Prev == hist[2]

\* ------------------------------------------------------------------------
\* State machine
\* ------------------------------------------------------------------------
Init ==
    /\ balls = createBalls
    /\ hist = <<Entry("init", 0, NoDir, 0, createBalls),
                Entry("init", 0, NoDir, 0, createBalls)>>
    /\ ticksLeft = MaxTicks
    /\ kicksLeft = MaxKicks
    /\ now = 0
    /\ clock = newClock
    /\ prevNow = 0
    /\ frames = 0
    /\ app = newApp
    /\ ui = newUi

\* PlaygroundScene.kickBall(ball, kickDirection)
Kick(b, d) ==
    /\ kicksLeft > 0
    /\ kicksLeft' = kicksLeft - 1
    /\ balls' = kickBallOn(balls, b, d)
    /\ hist' = <<Entry("kick", b, d, 0, balls), hist[1]>>
    /\ UNCHANGED <<ticksLeft, now, clock, prevNow, frames, app, ui>>

\* PlaygroundScene.updateBalls(deltaTime)
UpdateBalls(dt) ==
    /\ ticksLeft > 0
    /\ ticksLeft' = ticksLeft - 1
    /\ balls' = updateBalls(balls, dt)
    /\ hist' = <<Entry("tick", 0, NoDir, dt, balls), hist[1]>>
    /\ UNCHANGED <<kicksLeft, now, clock, prevNow, frames, app, ui>>

\* PlaygroundApp.animate(): one frame, frameDur after the previous one;
\* update() reads the clock with getElapsedTime() and, gap later, with
\* getDelta(), and passes the second value to updateBalls
Animate(frameDur, gap) ==
    /\ frames < MaxFrames
    /\ frames' = frames + 1
    /\ LET t == now + frameDur
           e == getElapsedTime(clock, t)
           d == getDelta(e.clock, t + gap)
       IN  /\ clock' = d.clock
           /\ now' = t + gap
           /\ prevNow' = now
           /\ balls' = updateBalls(balls, d.value)
           /\ hist' = <<Entry("animate", 0, NoDir, d.value, balls), hist[1]>>
           /\ app' = animate(app, frames = 0, balls, updateBalls(balls, d.value))
    /\ UNCHANGED ui
    /\ UNCHANGED <<ticksLeft, kicksLeft>>

Next ==
    \/ \E b \in BallIds, d \in Dirs : Kick(b, d)
    \/ \E dt \in DtSet : UpdateBalls(dt)

Spec == Init /\ [][Next]_vars

\* the frame loop: animation frames and clicks on a ball
NextFrame ==
    \/ \E b \in BallIds, d \in Dirs : Kick(b, d)
    \/ \E f \in FrameSet, g \in GapSet : Animate(f, g)

SpecFrame == Init /\ [][NextFrame]_vars

\* a click on a ball: PlaygroundApp.kickBall(ball, clickPoint)
AppKick(b) == Kick(b, kickDirection(balls[b], app.camera))

\* clicks and ticks with the camera at one of CamSet
InitApp ==
    /\ balls = createBalls
    /\ hist = <<Entry("init", 0, NoDir, 0, createBalls),
                Entry("init", 0, NoDir, 0, createBalls)>>
    /\ ticksLeft = AppTicks
    /\ kicksLeft = AppKicks
    /\ now = 0
    /\ clock = newClock
    /\ prevNow = 0
    /\ frames = 0
    /\ \E c \in CamSet : app = [newApp EXCEPT !.camera = c]
    /\ ui = newUi

NextApp ==
    \/ \E b \in BallIds : AppKick(b)
    \/ \E dt \in StepDtSet : UpdateBalls(dt)

SpecApp == InitApp /\ [][NextApp]_vars

\* a click on a viewpoint button or a key 1..4: moveCamera(name)
MoveCamera(name) ==
    /\ app.movesLeft > 0
    /\ app' = [moveCamera(app, name, now) EXCEPT !.movesLeft = @ - 1,
                                                 !.call = name]
    /\ UNCHANGED <<balls, hist, ticksLeft, kicksLeft, now, clock, prevNow, frames, ui>>

\* a display frame f after the previous one while callbacks of moveCamera
\* are requested: each of them runs once
CamFrame(f) ==
    /\ app.transitions # <<>>
    /\ now' = now + f
    /\ app' = RunTransitions([app EXCEPT !.transitions = <<>>],
                             app.transitions, now + f)
    /\ UNCHANGED <<balls, hist, ticksLeft, kicksLeft, clock, prevNow, frames, ui>>

CamFrames == \E f \in CamFrameSet : CamFrame(f)

NextCam ==
    \/ \E n \in Names : MoveCamera(n)
    \/ CamFrames

\* requestAnimationFrame runs a requested callback at the next display frame
SpecCam == Init /\ [][NextCam]_vars /\ WF_vars(CamFrames)

\* a click on the slide: createConfetti
SlideClick(vy) ==
    /\ ui.slideClicksLeft > 0
    /\ ui' = [createConfetti(ui, vy) EXCEPT !.slideClicksLeft = @ - 1]
    /\ UNCHANGED <<balls, hist, ticksLeft, kicksLeft, now, clock, prevNow, frames, app>>

\* a display frame while animateParticles callbacks are requested
ConfettiFrame ==
    /\ ui.confetti # <<>>
    /\ ui' = RunConfetti([ui EXCEPT !.confetti = <<>>], ui.confetti)
    /\ UNCHANGED <<balls, hist, ticksLeft, kicksLeft, now, clock, prevNow, frames, app>>

NextConfetti ==
    \/ \E vy \in ConfettiVySet : SlideClick(vy)
    \/ ConfettiFrame

\* requestAnimationFrame runs a requested callback at the next display frame
SpecConfetti == Init /\ [][NextConfetti]_vars /\ WF_vars(ConfettiFrame)

\* mouse move with the pointer over target: onMouseMove, updateHover
MouseMove(target) ==
    /\ ui.uiEventsLeft > 0
    /\ ui' = [updateHover(ui, target, now) EXCEPT !.uiEventsLeft = @ - 1]
    /\ UNCHANGED <<balls, hist, ticksLeft, kicksLeft, now, clock, prevNow, frames, app>>

\* click on a lamp: handleObjectClick, case 'lamp'
LampClick ==
    /\ ui.uiEventsLeft > 0
    /\ ui' = [ui EXCEPT !.lamp = toggleLamp(@), !.uiEventsLeft = @ - 1]
    /\ UNCHANGED <<balls, hist, ticksLeft, kicksLeft, now, clock, prevNow, frames, app>>

\* click on the sound button
ToggleSound ==
    /\ ui.uiEventsLeft > 0
    /\ ui' = [ui EXCEPT !.sound = toggleSound(@), !.uiEventsLeft = @ - 1]
    /\ UNCHANGED <<balls, hist, ticksLeft, kicksLeft, now, clock, prevNow, frames, app>>

\* an interval timer that is not cleared fires: playBirdChirp
ChirpTimer ==
    /\ ui.uiEventsLeft > 0
    /\ ui.sound.timers # {}
    /\ ui' = [ui EXCEPT !.sound = playBirdChirp(@), !.uiEventsLeft = @ - 1]
    /\ UNCHANGED <<balls, hist, ticksLeft, kicksLeft, now, clock, prevNow, frames, app>>

NextUi ==
    \/ \E target \in LampTargets : MouseMove(target)
    \/ LampClick
    \/ ToggleSound
    \/ ChirpTimer

SpecUi == Init /\ [][NextUi]_vars

\* mouse move with the pointer over a tree or over no object
TreeTargets == {"none", "tree"}

\* the time between two display frames
TreeFrameSet == {(3 * TimeDen) \div 10, TimeDen \div 2}

\* click on a tree: handleObjectClick, case 'tree'
TreeClick ==
    /\ ui.uiEventsLeft > 0
    /\ ui' = [ui EXCEPT !.tree = rustleTree(@, now), !.uiEventsLeft = @ - 1]
    /\ UNCHANGED <<balls, hist, ticksLeft, kicksLeft, now, clock, prevNow, frames, app>>

\* a display frame f after the previous one: animate() sways the hovered
\* tree, then the requested callbacks of rustleTree run
TreeFrame(f) ==
    /\ ui.uiFramesLeft > 0
    /\ now' = now + f
    /\ ui' = LET swayed == IF ui.hoveredObject = "tree"
                           THEN animateTreeHover(ui.tree)
                           ELSE ui.tree
             IN  [ui EXCEPT !.tree = RunRustles([swayed EXCEPT !.rustles = <<>>],
                                                swayed.rustles, now + f),
                            !.uiFramesLeft = @ - 1]
    /\ UNCHANGED <<balls, hist, ticksLeft, kicksLeft, clock, prevNow, frames, app>>

NextTree ==
    \/ \E target \in TreeTargets : MouseMove(target)
    \/ TreeClick
    \/ \E f \in TreeFrameSet : TreeFrame(f)

SpecTree == Init /\ [][NextTree]_vars

\* mouse move with the pointer over a flower or over no object
FlowerTargets == {"none", "flower"}

\* the time between two display frames
FlowerFrameSet == {TimeDen \div 10, TimeDen \div 5}

\* a display frame f after the previous one while callbacks of animateScale
\* are requested: each of them runs once
FlowerFrame(f) ==
    /\ ui.flower.anims # <<>>
    /\ now' = now + f
    /\ ui' = [ui EXCEPT !.flower = RunScales([@ EXCEPT !.anims = <<>>],
                                             ui.flower.anims, now + f)]
    /\ UNCHANGED <<balls, hist, ticksLeft, kicksLeft, clock, prevNow, frames, app>>

FlowerFrames == \E f \in FlowerFrameSet : FlowerFrame(f)

NextFlower ==
    \/ \E target \in FlowerTargets : MouseMove(target)
    \/ FlowerFrames

\* requestAnimationFrame runs a requested callback at the next display frame
SpecFlower == Init /\ [][NextFlower]_vars /\ WF_vars(FlowerFrames)

\* the keys the keyboard input is drawn from
FocusKeys == {"w", "q"}

\* the time between two display frames
FocusFrameSet == {(2 * TimeDen) \div 5, (3 * TimeDen) \div 5}

\* the application in a scene with or without a character
InitFocus ==
    /\ balls = createBalls
    /\ hist = <<Entry("init", 0, NoDir, 0, createBalls),
                Entry("init", 0, NoDir, 0, createBalls)>>
    /\ ticksLeft = MaxTicks
    /\ kicksLeft = MaxKicks
    /\ now = 0
    /\ clock = newClock
    /\ prevNow = 0
    /\ frames = 0
    /\ app = newApp
    /\ \E c \in BOOLEAN : ui = [newUi EXCEPT !.focus.character = c]

\* click on the character's bubble: handleObjectClick, case 'bubble'
ToggleFocusMode ==
    /\ ui.uiEventsLeft > 0
    /\ ui' = [ui EXCEPT !.focus = toggleFocusMode(@, now), !.uiEventsLeft = @ - 1]
    /\ UNCHANGED <<balls, hist, ticksLeft, kicksLeft, now, clock, prevNow, frames, app>>

\* the key k goes down (or repeats while it is held): onKeyDown
KeyDown(k) ==
    /\ ui.uiEventsLeft > 0
    /\ ui' = [ui EXCEPT !.focus = [onKeyDown(@, k) EXCEPT !.held[k] = TRUE],
                        !.uiEventsLeft = @ - 1]
    /\ UNCHANGED <<balls, hist, ticksLeft, kicksLeft, now, clock, prevNow, frames, app>>

\* the held key k is released: onKeyUp
KeyUp(k) ==
    /\ ui.uiEventsLeft > 0
    /\ ui.focus.held[k]
    /\ ui' = [ui EXCEPT !.focus = [onKeyUp(@, k) EXCEPT !.held[k] = FALSE],
                        !.uiEventsLeft = @ - 1]
    /\ UNCHANGED <<balls, hist, ticksLeft, kicksLeft, now, clock, prevNow, frames, app>>

\* a display frame f after the previous one: animate() calls
\* updateFocusMode in focus mode, then the requested callbacks of the camera
\* restore run
FocusFrame(f) ==
    /\ ui.uiFramesLeft > 0
    /\ now' = now + f
    /\ ui' = LET updated == IF ui.focus.focusMode
                            THEN updateFocusMode(ui.focus)
                            ELSE ui.focus
             IN  [ui EXCEPT !.focus = RunRestores([updated EXCEPT !.restores = <<>>],
                                                 updated.restores, now + f),
                            !.uiFramesLeft = @ - 1]
    /\ UNCHANGED <<balls, hist, ticksLeft, kicksLeft, clock, prevNow, frames, app>>

NextFocus ==
    \/ ToggleFocusMode
    \/ \E k \in FocusKeys : KeyDown(k)
    \/ \E k \in FocusKeys : KeyUp(k)
    \/ \E f \in FocusFrameSet : FocusFrame(f)

SpecFocus == InitFocus /\ [][NextFocus]_vars

\* an endless run of ticks of positive length after at most LiveKicks kicks
InitLive ==
    /\ balls = createBalls
    /\ hist = <<Entry("init", 0, NoDir, 0, createBalls),
                Entry("init", 0, NoDir, 0, createBalls)>>
    /\ ticksLeft = 0
    /\ kicksLeft = LiveKicks
    /\ now = 0
    /\ clock = newClock
    /\ prevNow = 0
    /\ frames = 0
    /\ app = newApp
    /\ ui = newUi

\* updateBalls(deltaTime) called by update() in every frame
Tick(dt) ==
    /\ balls' = updateBalls(balls, dt)
    /\ hist' = <<Entry("tick", 0, NoDir, dt, balls), hist[1]>>
    /\ UNCHANGED <<ticksLeft, kicksLeft, now, clock, prevNow, frames, app, ui>>

Ticks == \E dt \in LiveDtSet : Tick(dt)

NextLive ==
    \/ \E b \in BallIds : Kick(b, NoDir)
    \/ Ticks

\* the main loop requests its next frame in every frame, so ticks keep coming
SpecLive == InitLive /\ [][NextLive]_vars /\ WF_vars(Ticks)

\* the integrator as a function: one ball starts in any of StepStates
InitStep ==
    /\ \E b \in BallIds : \E s \in StepStates(b) :
          balls = [createBalls EXCEPT ![b] = s]
    /\ hist = <<Entry("init", 0, NoDir, 0, balls), Entry("init", 0, NoDir, 0, balls)>>
    /\ ticksLeft = StepTicks
    /\ kicksLeft = StepKicks
    /\ now = 0
    /\ clock = newClock
    /\ prevNow = 0
    /\ frames = 0
    /\ app = newApp
    /\ ui = newUi

NextStep ==
    \/ \E b \in Meshes, d \in StepDirs : Kick(b, d)
    \/ \E dt \in StepDtSet : UpdateBalls(dt)

SpecStep == InitStep /\ [][NextStep]_vars

\* ------------------------------------------------------------------------
\* Properties
\* ------------------------------------------------------------------------
IsTick == Last.op = "tick"

SamePosition(p, q) == p.x = q.x /\ p.y = q.y /\ p.z = q.z

SameVelocity(p, q) == p.vx = q.vx /\ p.vy = q.vy /\ p.vz = q.vz

ZeroVelocity(p) == p.vx = 0 /\ p.vy = 0 /\ p.vz = 0

\* the ball as it enters the ground collision of the last tick
BeforeCollision(b) == Integrate(ApplyGravity(Pre[b], b, Last.dt), Last.dt)

\* the last tick took the ground collision branch for ball b
Collided(b) ==
    /\ IsTick
    /\ ~IsStationary(Pre[b])
    /\ BeforeCollision(b).y <= radius[b]

\* C1: after any sequence of updateBalls ticks and kickBall calls, every
\* ball has position.y >= radius.
C1_AboveGround == \A b \in BallIds : balls[b].y >= radius[b]

\* a tick whose integration took a ball below the ground
C1_Witness ==
    \E b \in BallIds :
        /\ Collided(b)
        /\ BeforeCollision(b).y < radius[b]
        /\ balls[b].y = radius[b]

\* C2: after any sequence of ticks and kicks, every ball has
\* |position.x| <= 45 and |position.z| <= 45.
C2_InsidePlayground ==
    \A b \in BallIds :
        /\ Abs(balls[b].x) <= 45 * Scale
        /\ Abs(balls[b].z) <= 45 * Scale

\* a tick whose integration took a ball beyond the boundary in x or in z
C2_Witness ==
    \E b \in BallIds :
        /\ IsTick
        /\ ~IsStationary(Pre[b])
        /\ \/ BeforeCollision(b).x > 45 * Scale /\ balls[b].x = 45 * Scale
           \/ BeforeCollision(b).z > 45 * Scale /\ balls[b].z = 45 * Scale

C5_RestOnGround ==
    IsTick =>
        \A b \in BallIds : ZeroVelocity(balls[b]) => balls[b].y = radius[b]

\* C6: kickBall(ball, d) sets the velocity to (8 * d.x, 2, 8 * d.z) whatever
\* it was before and leaves the position unchanged.
C6_KickOverwrites ==
    Last.op = "kick" =>
        LET k == balls[Last.ball] IN
        /\ k.vx * DirDen = 8 * Scale * Last.dir.x
        /\ k.vy = 2 * Scale
        /\ k.vz * DirDen = 8 * Scale * Last.dir.z
        /\ SamePosition(k, Pre[Last.ball])

\* a kick of a ball that was moving, in a direction other than zero
C6_Witness ==
    /\ Last.op = "kick"
    /\ Pre[Last.ball].vx # 0
    /\ Pre[Last.ball].vy # 0
    /\ Last.dir.x # 0
    /\ Pre[Last.ball].vx # balls[Last.ball].vx

\* C7 as stated: in every tick in which the ground collision fires, the
\* magnitude of velocity.y after the collision handling is strictly less
\* than before it.
C7_BounceStrictlyLoses ==
    \A b \in BallIds :
        Collided(b) => Abs(balls[b].vy) < Abs(BeforeCollision(b).vy)

\* C7 amended: in such a tick the magnitude of velocity.y is strictly less
\* after the collision handling when velocity.y was not zero before it, and
\* velocity.y stays zero when it was zero.
C7_BounceLoses ==
    \A b \in BallIds :
        Collided(b) =>
            /\ BeforeCollision(b).vy # 0 => Abs(balls[b].vy) < Abs(BeforeCollision(b).vy)
            /\ BeforeCollision(b).vy = 0 => balls[b].vy = 0

\* a bounce that keeps a vertical velocity
C7_Witness ==
    \E b \in BallIds :
        /\ Collided(b)
        /\ BeforeCollision(b).vy < 0
        /\ balls[b].vy > 0

\* C4: on every animation frame after the first, the deltaTime that update()
\* passes to updateBalls equals the time elapsed since the previous frame's
\* update.
C4_DeltaIsFrameTime ==
    (Last.op = "animate" /\ frames >= 2) => Last.dt = now - prevNow

AtRestAtOrigin(p, b) ==
    p.x = 0 /\ p.y = radius[b] /\ p.z = 0 /\ ZeroVelocity(p)

UnitX == [x |-> DirDen, z |-> 0]

\* the tick of the kick scenario: updateBalls(1/60) right after ball b, at
\* rest at (0, radius, 0), was kicked in direction (1, 0, 0)
KickScenarioTick(b) ==
    /\ IsTick
    /\ 60 * Last.dt = TimeDen
    /\ Prev.op = "kick"
    /\ Prev.ball = b
    /\ Prev.dir = UnitX
    /\ AtRestAtOrigin(Prev.before[b], b)

\* C8: a ball at rest at (0, radius, 0) kicked in direction (1, 0, 0) gets
\* velocity (8, 2, 0); after one updateBalls(1/60) position.x has increased
\* by 8/60, velocity.x is still 8 and velocity.y has changed by -9.8/60.
C8_KickScenario ==
    \A b \in BallIds :
        /\ (Last.op = "kick" /\ Last.ball = b /\ Last.dir = UnitX
              /\ AtRestAtOrigin(Pre[b], b))
           => (balls[b].vx = 8 * Scale /\ balls[b].vy = 2 * Scale /\ balls[b].vz = 0)
        /\ KickScenarioTick(b)
           => /\ 60 * (balls[b].x - Pre[b].x) = 8 * Scale
              /\ balls[b].vx = 8 * Scale
              /\ 600 * (balls[b].vy - Pre[b].vy) = -98 * Scale

C8_Witness == \E b \in BallIds : KickScenarioTick(b) /\ balls[b].x > 0

\* the tick of the boundary scenario: velocity.x = 50, position.x = 44 and
\* the integration carries position.x beyond 45
BoundaryScenarioTick(b) ==
    /\ IsTick
    /\ Pre[b].vx = 50 * Scale
    /\ Pre[b].x = 44 * Scale
    /\ BeforeCollision(b).x > 45 * Scale

\* C9 as stated: the boundary scenario ends with position.x = 45 and
\* velocity.x = -25 at every height of the ball.
C9_BoundaryScenario ==
    \A b \in BallIds :
        BoundaryScenarioTick(b) =>
            balls[b].x = 45 * Scale /\ balls[b].vx = -25 * Scale

\* C9 amended: the boundary scenario ends with position.x = 45; velocity.x
\* is -25 when the ball ends the tick above radius + 0.01, and -25 times its
\* friction factor when it ends the tick at or below radius + 0.01.
C9_BoundaryScenarioAmended ==
    \A b \in BallIds :
        BoundaryScenarioTick(b) =>
            /\ balls[b].x = 45 * Scale
            /\ balls[b].y > radius[b] + Scale \div 100 => balls[b].vx = -25 * Scale
            /\ balls[b].y <= radius[b] + Scale \div 100
                  => 100 * balls[b].vx = -25 * Scale * friction[b]

\* the boundary scenario for a ball on the ground
C9_Witness ==
    \E b \in BallIds :
        /\ BoundaryScenarioTick(b)
        /\ Pre[b].y = radius[b]
        /\ balls[b].y = radius[b]
        /\ balls[b].vx < 0

\* C10: a tick on a ball whose squared speed is below 0.001 sets its velocity
\* to zero, raises position.y to radius if it was below, and leaves
\* position.x, position.z and the rotation unchanged.
C10_RestTick ==
    \A b \in BallIds :
        (IsTick /\ IsStationary(Pre[b])) =>
            /\ balls[b].vx = 0 /\ balls[b].vy = 0 /\ balls[b].vz = 0
            /\ balls[b].x = Pre[b].x
            /\ balls[b].z = Pre[b].z
            /\ balls[b].y = (IF Pre[b].y < radius[b] THEN radius[b] ELSE Pre[b].y)
            /\ balls[b].rx = Pre[b].rx
            /\ balls[b].rz = Pre[b].rz

\* a tick of positive length on a ball with velocity (0.001, 0.0005, 0),
\* above the ground
C10_Witness ==
    \E b \in BallIds :
        /\ IsTick
        /\ Last.dt > 0
        /\ 1000 * Pre[b].vx = Scale
        /\ 2000 * Pre[b].vy = Scale
        /\ Pre[b].vz = 0
        /\ Pre[b].y > radius[b]

\* C14: kickBall on one ball leaves the other ball unchanged, and a ball
\* after a tick is the forEach body applied to that ball's own state before
\* the tick and deltaTime; in particular a ball at rest on the ground is
\* left as it is whatever the other ball does.
C14_BallsIndependent ==
    /\ Last.op = "kick" =>
          \A b \in BallIds \ {Last.ball} : balls[b] = Pre[b]
    /\ IsTick =>
          \A b \in BallIds :
              /\ balls[b] = updateBall(Pre[b], b, Last.dt)
              /\ (ZeroVelocity(Pre[b]) /\ Pre[b].y = radius[b]) => balls[b] = Pre[b]

\* a tick of positive length in which one ball moves and the other rests
C14_Witness ==
    /\ IsTick
    /\ Last.dt > 0
    /\ \E a, b \in BallIds :
          /\ a # b
          /\ ~IsStationary(Pre[a])
          /\ balls[a].x # Pre[a].x
          /\ ZeroVelocity(Pre[b])
          /\ ~SamePosition(Pre[a], createBalls[a])

\* C17: in a non-rest tick the position is integrated with the velocity that
\* already includes gravity: where no clamp applies, position.y is
\* y + (vy + gravity * dt) * dt, position.x is x + vx * dt and position.z is
\* z + vz * dt.
C17_GravityBeforePosition ==
    \A b \in BallIds :
        (IsTick /\ ~IsStationary(Pre[b])) =>
            LET dt  == Last.dt
                vy1 == Pre[b].vy + MulTime(gravity[b], dt)
                yN  == Pre[b].y + MulTime(vy1, dt)
                xN  == Pre[b].x + MulTime(Pre[b].vx, dt)
                zN  == Pre[b].z + MulTime(Pre[b].vz, dt)
            IN  /\ yN > radius[b] => (balls[b].y = yN /\ balls[b].vy = vy1)
                /\ yN <= radius[b] => balls[b].y = radius[b]
                /\ Abs(xN) <= 45 * Scale => balls[b].x = xN
                /\ Abs(zN) <= 45 * Scale => balls[b].z = zN

\* a tick of positive length that leaves a moving ball in the air
C17_Witness ==
    \E b \in BallIds :
        /\ IsTick
        /\ Last.dt > 0
        /\ ~IsStationary(Pre[b])
        /\ Pre[b].vx # 0
        /\ balls[b].y > radius[b]
        /\ balls[b].y # Pre[b].y + MulTime(Pre[b].vy, Last.dt)

\* C18: at the end of a tick in which the ground collision fired,
\* velocity.y is 0 or has magnitude at least 0.3.
C18_NoSmallBounce ==
    \A b \in BallIds :
        Collided(b) => (balls[b].vy = 0 \/ 10 * Abs(balls[b].vy) >= 3 * Scale)

\* a collision whose bounce was below the threshold and was stopped
C18_Witness ==
    \E b \in BallIds :
        /\ Collided(b)
        /\ BeforeCollision(b).vy # 0
        /\ balls[b].vy = 0

\* no boundary was hit in the last tick by ball b
NoBoundaryHit(b) ==
    /\ Abs(Pre[b].x + MulTime(Pre[b].vx, Last.dt)) <= 45 * Scale
    /\ Abs(Pre[b].z + MulTime(Pre[b].vz, Last.dt)) <= 45 * Scale

\* velocity.x and velocity.z of ball b were multiplied by the friction
\* factor once in the last tick (and reflected where a boundary was hit)
FrictionOnce(b) ==
    LET fx == RoundDiv(Pre[b].vx * friction[b], 100)
        fz == RoundDiv(Pre[b].vz * friction[b], 100)
    IN  /\ balls[b].vx =
              (IF Abs(Pre[b].x + MulTime(Pre[b].vx, Last.dt)) <= 45 * Scale
               THEN fx ELSE RoundDiv(-fx, 2))
        /\ balls[b].vz =
              (IF Abs(Pre[b].z + MulTime(Pre[b].vz, Last.dt)) <= 45 * Scale
               THEN fz ELSE RoundDiv(-fz, 2))

C11_EventuallyRest ==
    /\ (kicksLeft = 0) ~> (\A b \in BallIds : ZeroVelocity(balls[b]))
    /\ [][\A b \in BallIds :
            (ZeroVelocity(balls[b]) /\ kicksLeft' = kicksLeft)
                => balls'[b] = balls[b]]_vars

\* C12: |velocity.x| and |velocity.z| of every ball never exceed
\* kickStrength, whatever the ticks and the kicks (direction of length at
\* most 1) before.
C12_HorizontalSpeedBounded ==
    \A b \in BallIds :
        /\ Abs(balls[b].vx) <= kickStrength * Scale
        /\ Abs(balls[b].vz) <= kickStrength * Scale

\* a ball already moving at kickStrength along x is kicked again along x
C12_Witness ==
    \E b \in BallIds :
        /\ Last.op = "kick"
        /\ Last.ball = b
        /\ Last.dir.x = DirDen
        /\ Pre[b].vx > 0
        /\ ~SamePosition(Pre[b], createBalls[b])
        /\ balls[b].vx = kickStrength * Scale

\* C13: a click on a ball whose ground projection coincides with the
\* camera's sets the ball's velocity to (0, 2, 0) and leaves its position.
C13_ZeroDirectionKick ==
    \A b \in BallIds :
        (Last.op = "kick" /\ Last.ball = b
            /\ Pre[b].x = app.camera.x /\ Pre[b].z = app.camera.z)
        => /\ balls[b].vx = 0
           /\ balls[b].vy = 2 * Scale
           /\ balls[b].vz = 0
           /\ SamePosition(balls[b], Pre[b])

\* a ball in flight right under the camera is clicked
C13_Witness ==
    \E b \in BallIds :
        /\ Last.op = "kick"
        /\ Last.ball = b
        /\ Pre[b].x = app.camera.x
        /\ Pre[b].z = app.camera.z
        /\ Pre[b].y > radius[b]
        /\ Pre[b].vy # 0

\* C15: after every run of animate exactly one main-loop callback is
\* pending, the balls were advanced by one updateBalls call since the
\* render before, and the render drew the positions after that update.
C15_UpdateThenRender ==
    /\ frames >= 1 => app.pending = 1
    /\ Last.op = "animate" =>
          /\ balls = updateBalls(Pre, Last.dt)
          /\ app.rendered = Positions(balls)
    /\ (Last.op = "animate" /\ Prev.op = "animate") =>
          Positions(Pre) = Positions(updateBalls(Prev.before, Prev.dt))

\* two frames in a row, the second one moving a ball
C15_Witness ==
    /\ Last.op = "animate"
    /\ Prev.op = "animate"
    /\ frames >= 2
    /\ Positions(balls) # Positions(Pre)

\* C16: kickBall with a mesh that is not in the balls list completes and
\* leaves the position and velocity of every ball unchanged.
C16_UnknownMeshIgnored ==
    (Last.op = "kick" /\ Last.ball \notin BallIds) => balls = Pre

\* such a call while a ball is moving
C16_Witness ==
    /\ Last.op = "kick"
    /\ Last.ball \notin BallIds
    /\ Last.dir.x # 0
    /\ \E b \in BallIds : ~ZeroVelocity(balls[b])

\* C20: at most one transition of moveCamera is in progress; a moveCamera
\* call while isTransitioning is true or with an unknown name changes
\* nothing; a started transition eventually resets isTransitioning.
C20_OneTransition ==
    /\ [](/\ Len(app.transitions) <= 1
          /\ app.isTransitioning <=> (Len(app.transitions) = 1))
    /\ [][(app'.movesLeft < app.movesLeft
            /\ (app.isTransitioning \/ app'.call \notin DOMAIN cameraViewpoints))
          => /\ app'.camera = app.camera
             /\ app'.target = app.target
             /\ app'.isTransitioning = app.isTransitioning
             /\ app'.transitions = app.transitions]_vars
    /\ app.isTransitioning ~> ~app.isTransitioning

\* a call with the name of another viewpoint was made in the middle of a
\* transition, which goes on
C20_Witness ==
    /\ app.isTransitioning
    /\ Len(app.transitions) = 1
    /\ app.call \in DOMAIN cameraViewpoints
    /\ cameraViewpoints[app.call].position # app.transitions[1].endPos
    /\ app.camera # app.transitions[1].startPos
    /\ app.camera # app.transitions[1].endPos

\* C21: no pooled particle is in two confetti animations that both still
\* move it (life above 0).
C21_OneAnimationPerParticle ==
    \A i \in 1..PoolSize :
        Cardinality({k \in DOMAIN ui.confetti :
                        i \in ui.confetti[k].members /\ ui.confetti[k].life > 0}) <= 1

\* C22: whenever animateParticles callbacks are requested, after finitely
\* many frames none is requested and every particle is invisible; with no
\* callback requested every particle is invisible, hence claimable.
C22_ConfettiTerminates ==
    /\ (ui.confetti # <<>>) ~>
          (ui.confetti = <<>> /\ \A i \in 1..PoolSize : ~ui.particles[i].visible)
    /\ [](ui.confetti = <<>> => \A i \in 1..PoolSize : ~ui.particles[i].visible)

\* two clicks were made, the particles have moved, and all is over
C22_Witness ==
    /\ ui.confetti = <<>>
    /\ ui.slideClicksLeft <= MaxSlideClicks - 2
    /\ \A i \in 1..PoolSize : ~ui.particles[i].visible /\ ui.particles[i].y > 500

\* C23: audioPlaying is true exactly when a context exists, one wind source
\* is in oscillators and the chirp timer is active; when it is false there
\* is no context, no source and no active timer, and no chirp is ever
\* played while it is false.
C23_SoundState ==
    LET a == ui.sound
    IN  /\ a.audioPlaying =>
              (a.audioContext /\ Len(a.oscillators) = 1
                  /\ a.timers = {a.birdChirpInterval})
        /\ ~a.audioPlaying =>
              (~a.audioContext /\ a.oscillators = <<>> /\ a.timers = {})
        /\ a.chirpsWhileOff = 0

\* the sound was switched on, off and on again, and a chirp was played
C23_Witness ==
    /\ ui.sound.audioPlaying
    /\ ui.sound.intervals >= 2
    /\ ui.sound.chirps >= 1

C25_TreeRotationRestored ==
    (ui.hoveredObject # "tree" /\ ui.tree.rustles = <<>>)
        => ui.tree.rotation = createTree.rotation

\* C26: every run of mouse moves over and off a flower reaches a state in
\* which no callback of animateScale is requested, and in every such state
\* the flower's scale is 1.2 if the flower is the hovered object and 1.0
\* otherwise.
C26_FlowerScaleSettles ==
    /\ [](ui.flower.anims = <<>>
            => ui.flower.scale = (IF ui.hoveredObject = "flower" THEN 1200 ELSE 1000))
    /\ []<>(ui.flower.anims = <<>>)

\* the flower is hovered and settled at 1.2 after mouse moves that started
\* animations while an earlier one had the scale between 1.0 and 1.2
C26_Witness ==
    /\ ui.hoveredObject = "flower"
    /\ ui.flower.anims = <<>>
    /\ ui.flower.scale = 1200
    /\ ui.flower.interrupted

\* C27: in a scene that has a character, whenever focusMode is true the
\* orbit controls are disabled.
C27_FocusDisablesControls ==
    (ui.focus.character /\ ui.focus.focusMode) => ~ui.focus.controlsEnabled

\* C28: in a scene that has a character, a key flag is true only while that
\* key is physically held, and updateFocusMode never moves the character
\* or turns the camera while no key is held.
C28_KeyFlagsFollowKeys ==
    ui.focus.character =>
        /\ \A k \in KeySet : ui.focus.keys[k] => ui.focus.held[k]
        /\ ~ui.focus.movedUnheld

====
